---- MODULE Spec2Model ----
(***************************************************************************)
(* APNsConnection (asyncio_apns/apns_connection.py): the connection        *)
(* manager that owns one transport session and one pending connect handle. *)
(*                                                                         *)
(* All callers run as tasks of one asyncio event loop, so a step of the    *)
(* model is everything a task does between two suspensions.  A call is     *)
(* suspended only inside `yield from`: on the handshake future reached     *)
(* through the _do_connect generator (line 45), or on the transport round  *)
(* trip of send_request (line 87).                                         *)
(*                                                                         *)
(* self._connection_coro is a bare generator object, not a Task or a       *)
(* Future.  `yield from self._connection_coro` (lines 54 and 58) therefore *)
(* resumes that one generator from whichever task executes it:             *)
(*   - an exhausted generator ends the `yield from` at once (StopIteration)*)
(*     when it is resumed with send/next, and re-raises what is thrown in; *)
(*   - a generator suspended on a future that is already done runs to its  *)
(*     end in the resuming task;                                           *)
(*   - a generator suspended on a pending future, resumed by a second      *)
(*     task, reaches the future's iterator again.  What happens then is    *)
(*     decided by the asyncio build: the C-accelerated Future (CPython 3.6 *)
(*     and later) yields the future a second time, so the second task      *)
(*     waits on it too; the pure-Python Future (CPython 3.4/3.5, or any    *)
(*     interpreter without the accelerator) raises ("yield from wasn't     *)
(*     used with future"), which unwinds and exhausts the generator.       *)
(* The build is fixed for a run and chosen nondeterministically in Init.   *)
(***************************************************************************)
EXTENDS Integers, FiniteSets, Sequences, TLC

\* Bounds of the model.
MaxCalls == 3        \* calls made on the manager, one task each
MaxAttempts == 2     \* _do_connect() generators (handshakes) ever created

None == 0            \* Python's None for protocol and _connection_coro

Tasks == 1..MaxCalls
Attempts == 1..MaxAttempts

Ops == {"connect", "send_message", "disconnect"}

\* How a handshake future can be resolved: with a session, with a fault of
\* the transport, or by cancellation of a task waiting on it.
FutDone == {"ok", "fault", "cancelled"}

\* What send_request can come back with.
Replies == {"response", "HTTP2Error", "DisconnectError", "other"}

VARIABLES
    protocol,          \* self.protocol: None or the session (named by its attempt)
    connection_coro,   \* self._connection_coro: None or the attempt's generator
    att,               \* per attempt: generator state, handshake future, session
    task,              \* per caller: the call it makes and where it stands
    nAtt,              \* number of _do_connect() generators created so far
    c_future,          \* TRUE: C-accelerated asyncio Future; FALSE: pure Python
    call               \* one send_message() followed through lines 82-100

vars == <<protocol, connection_coro, att, task, nAtt, c_future, call>>

\* No send_message() is followed in detail.
NoCall == [stage |-> "none"]

NoAttempt == [gen |-> "none", fut |-> "none", sess |-> "none"]

\* A caller: the call it makes (op), where it stands (pc: "handshake" is
\* line 58, "joined" line 54, "request" line 87), what the call returned or
\* raised (res), the branch its connect() took (via) on which generator (g),
\* how that connect() ended (conn), the session its request went to (sentOn),
\* whether a cancellation is waiting for its next step (must_cancel), and how
\* many handshakes, connect() calls and requests it made.
IdleTask == [op |-> "none", pc |-> "idle", res |-> "none", via |-> "none",
             g |-> None, conn |-> "none", sentOn |-> None, must_cancel |-> FALSE,
             nHandshakes |-> 0, nConnects |-> 0, nRequests |-> 0]

\* The manager's fields as one value, so that a call can be composed of the
\* calls it makes.
Mgr == [protocol |-> protocol, coro |-> connection_coro, att |-> att, nAtt |-> nAtt]

\* APNsConnection.connected
connected_of(m) == m.protocol # None /\ m.att[m.protocol].sess = "healthy"

connected == connected_of(Mgr)

TypeOK ==
    /\ protocol \in {None} \cup Attempts
    /\ connection_coro \in {None} \cup Attempts
    /\ nAtt \in 0..MaxAttempts
    /\ c_future \in BOOLEAN
    /\ \A g \in Attempts :
          /\ att[g].gen \in {"none", "suspended", "finished"}
          /\ att[g].fut \in {"none", "pending"} \cup FutDone
          /\ att[g].sess \in {"none", "healthy", "lost", "closed"}
    /\ \A t \in Tasks :
          /\ task[t].op \in Ops \cup {"none"}
          /\ task[t].pc \in {"idle", "handshake", "joined", "request", "done"}

\* APNsConnection.__init__
Init ==
    /\ protocol = None
    /\ connection_coro = None
    /\ att = [g \in Attempts |-> NoAttempt]
    /\ task = [t \in Tasks |-> IdleTask]
    /\ nAtt = 0
    /\ c_future \in BOOLEAN
    /\ call = NoCall


(***************************************************************************)
(* The shared generator                                                    *)
(***************************************************************************)

\* _do_connect, line 45: H2ClientProtocol.connect returned its session and the
\* assignment stores it in self.protocol; the generator ends.
install(m, g) ==
    [m EXCEPT !.protocol = g, !.att[g].gen = "finished", !.att[g].sess = "healthy"]

\* The generator g ends by an exception unwinding through it.
unwind(m, g) == [m EXCEPT !.att[g].gen = "finished"]

\* `yield from g` resuming generator g with next()/send(None).  The result is
\* the manager afterwards and what the `yield from` does: "ok" (it ended),
\* "suspend" (the future was yielded to the resuming task) or the exception
\* raised out of it.
gen_send(m, g) ==
    LET a == m.att[g] IN
    IF a.gen = "finished" THEN [m |-> m, out |-> "ok"]
    ELSE IF a.fut = "ok" THEN [m |-> install(m, g), out |-> "ok"]
    ELSE IF a.fut \in {"fault", "cancelled"} THEN [m |-> unwind(m, g), out |-> a.fut]
    ELSE IF c_future THEN [m |-> m, out |-> "suspend"]
    ELSE [m |-> unwind(m, g), out |-> "RuntimeError"]

\* `yield from g` with the exception of a failed future thrown in by the
\* task's wakeup: a suspended generator unwinds, an exhausted one re-raises.
gen_throw(m, g, exc) == [m |-> unwind(m, g), out |-> exc]

(***************************************************************************)
(* connect()                                                               *)
(***************************************************************************)

\* self._connection_coro = self._do_connect() and the first resumption of the
\* generator, which calls H2ClientProtocol.connect and suspends on its future.
do_connect(m) ==
    LET g == m.nAtt + 1 IN
    [m EXCEPT !.coro = g, !.nAtt = g,
              !.att[g] = [gen |-> "suspended", fut |-> "pending", sess |-> "none"]]

\* The finally block of connect().
finally(m) == [m EXCEPT !.coro = None]

\* connect() without the test of the pending handle (lines 53-55 left out):
\* every caller that is not connected starts a handshake of its own.
connect_without_join(m) ==
    IF connected_of(m)
    THEN [m |-> m, out |-> "ok", via |-> "noop", g |-> None]
    ELSE [m |-> do_connect(m), out |-> "suspend", via |-> "start", g |-> m.nAtt + 1]

\* connect() without the test of `connected` (lines 51-52 left out).
connect_without_check(m) ==
    IF m.coro # None
    THEN LET r == gen_send(m, m.coro) IN
         [m |-> r.m, out |-> r.out, via |-> "join", g |-> m.coro]
    ELSE [m |-> do_connect(m), out |-> "suspend", via |-> "start", g |-> m.nAtt + 1]

\* connect() from its call to its first suspension or its return.
connect(m) ==
    IF connected_of(m)
    THEN [m |-> m, out |-> "ok", via |-> "noop", g |-> None]
    ELSE IF m.coro # None
    THEN LET r == gen_send(m, m.coro) IN
         [m |-> r.m, out |-> r.out, via |-> "join", g |-> m.coro]
    ELSE [m |-> do_connect(m), out |-> "suspend", via |-> "start", g |-> m.nAtt + 1]

\* connect() resumed by the wakeup of its task once the future is done: the
\* task sends None for a result and throws the exception otherwise, or the
\* cancellation that was waiting for this step.  The caller that started the
\* attempt then runs the finally block.
connect_resume(m, via, g, must_cancel) ==
    LET f == IF must_cancel THEN "cancelled" ELSE m.att[g].fut
        r == IF f = "ok" THEN gen_send(m, g) ELSE gen_throw(m, g, f)
    IN  [m |-> IF via = "start" THEN finally(r.m) ELSE r.m, out |-> r.out]

\* A new generator can be created within the bound.
CanConnect(m) == connected_of(m) \/ m.coro # None \/ m.nAtt < MaxAttempts

(***************************************************************************)
(* send_message()                                                          *)
(***************************************************************************)

\* Line 87: self.protocol.send_request(...).  With self.protocol None the
\* attribute access raises; otherwise the request is issued on the session
\* and the task is suspended on the round trip.
send_request(tk, m) ==
    IF m.protocol = None
    THEN [tk EXCEPT !.pc = "done", !.res = "AttributeError"]
    ELSE [tk EXCEPT !.pc = "request", !.sentOn = m.protocol, !.nRequests = @ + 1]

\* Lines 88-100: the result of the call for each reply of the transport.
reply_result(r) ==
    CASE r = "response" -> "ok"
      [] r = "HTTP2Error" -> "APNsError"
      [] r = "DisconnectError" -> "APNsDisconnectError"
      [] OTHER -> r

\* A joiner that, once resumed, goes on waiting when the handle it joined has
\* been cleared in the meantime.
after_connect_rewaits(tk, m, out) ==
    LET tk1 == [tk EXCEPT !.conn = out] IN
    IF tk.pc = "joined" /\ m.coro = None THEN tk
    ELSE IF out = "ok" /\ tk.op = "send_message"
    THEN send_request(tk1, m)
    ELSE [tk1 EXCEPT !.pc = "done", !.res = out]

\* The task once the connect() it called for has ended with `out`: connect()
\* itself returns or raises; send_message() goes on to line 82 when connect()
\* returned and raises what connect() raised otherwise.
after_connect(tk, m, out) ==
    LET tk1 == [tk EXCEPT !.conn = out] IN
    IF out = "ok" /\ tk.op = "send_message"
    THEN send_request(tk1, m)
    ELSE [tk1 EXCEPT !.pc = "done", !.res = out]

\* The task when connect() was called on its behalf and ran to `r`.
enter_connect(tk, r) ==
    LET tk1 == [tk EXCEPT !.via = r.via, !.g = r.g, !.nConnects = @ + 1,
                          !.nHandshakes = @ + (IF r.via = "start" THEN 1 ELSE 0)]
    IN  IF r.out = "suspend"
        THEN [tk1 EXCEPT !.pc = IF r.via = "start" THEN "handshake" ELSE "joined"]
        ELSE after_connect(tk1, r.m, r.out)

(***************************************************************************)
(* Actions                                                                 *)
(***************************************************************************)

SetMgr(m) ==
    /\ protocol' = m.protocol
    /\ connection_coro' = m.coro
    /\ att' = m.att
    /\ nAtt' = m.nAtt

\* Tasks make their calls in the order of their numbers.
Callable(t) ==
    /\ task[t].pc = "idle"
    /\ \A u \in Tasks : u < t => task[u].pc # "idle"

\* A task calls connect().
Connect(t) ==
    /\ Callable(t)
    /\ CanConnect(Mgr)
    /\ LET r == connect(Mgr) IN
       /\ SetMgr(r.m)
       /\ task' = [task EXCEPT ![t] = enter_connect([IdleTask EXCEPT !.op = "connect"], r)]
    /\ UNCHANGED <<c_future, call>>

\* A task calls send_message().
SendMessage(t) ==
    /\ Callable(t)
    /\ LET tk == [IdleTask EXCEPT !.op = "send_message"] IN
       IF connected
       THEN /\ task' = [task EXCEPT ![t] = send_request(tk, Mgr)]
            /\ UNCHANGED <<protocol, connection_coro, att, nAtt>>
       ELSE /\ CanConnect(Mgr)
            /\ LET r == connect(Mgr) IN
               /\ SetMgr(r.m)
               /\ task' = [task EXCEPT ![t] = enter_connect(tk, r)]
    /\ UNCHANGED <<c_future, call>>

\* disconnect() that also drops the pending handle.
disconnect_drops_handle(m) ==
    IF m.protocol = None
    THEN [m |-> m, out |-> "AttributeError"]
    ELSE [m |-> [m EXCEPT !.att[m.protocol].sess = "closed", !.protocol = None,
                          !.coro = None],
          out |-> "ok"]

\* disconnect() that returns quietly when there is no session.
disconnect_guarded(m) ==
    IF m.protocol = None
    THEN [m |-> m, out |-> "ok"]
    ELSE [m |-> [m EXCEPT !.att[m.protocol].sess = "closed", !.protocol = None],
          out |-> "ok"]

\* disconnect(), lines 63-64.
disconnect(m) ==
    IF m.protocol = None
    THEN [m |-> m, out |-> "AttributeError"]
    ELSE [m |-> [m EXCEPT !.att[m.protocol].sess = "closed", !.protocol = None],
          out |-> "ok"]

\* A task calls disconnect().  Its record keeps the handle it ran beside.
Disconnect(t) ==
    /\ Callable(t)
    /\ LET r == disconnect(Mgr) IN
       /\ SetMgr(r.m)
       /\ task' = [task EXCEPT ![t] = [IdleTask EXCEPT !.op = "disconnect",
                                                        !.g = connection_coro,
                                                        !.pc = "done", !.res = r.out]]
    /\ UNCHANGED <<c_future, call>>

\* The transport resolves the handshake of attempt g.
Resolve(g, o) ==
    /\ att[g].fut = "pending"
    /\ att' = [att EXCEPT ![g].fut = o]
    /\ UNCHANGED <<protocol, connection_coro, task, nAtt, c_future, call>>

Waiting(t) == task[t].pc \in {"handshake", "joined"}

\* A task waiting on the handshake is cancelled.  Task.cancel() cancels the
\* future the task waits on; when that future is already done the task is
\* marked instead and CancelledError is thrown into it at its next step.
Cancel(t) ==
    /\ Waiting(t)
    /\ ~task[t].must_cancel
    /\ \/ /\ att[task[t].g].fut = "pending"
          /\ att' = [att EXCEPT ![task[t].g].fut = "cancelled"]
          /\ UNCHANGED task
       \/ /\ att[task[t].g].fut \in FutDone
          /\ task' = [task EXCEPT ![t].must_cancel = TRUE]
          /\ UNCHANGED att
    /\ UNCHANGED <<protocol, connection_coro, nAtt, c_future, call>>

\* The event loop resumes a task whose future is done.  The future calls its
\* waiters back in the order in which they began to wait, which is the order
\* of the calls.
Wakeup(t) ==
    /\ Waiting(t)
    /\ att[task[t].g].fut \in FutDone
    /\ \A u \in Tasks : u < t => ~(Waiting(u) /\ task[u].g = task[t].g)
    /\ LET r == connect_resume(Mgr, task[t].via, task[t].g, task[t].must_cancel) IN
       /\ SetMgr(r.m)
       /\ task' = [task EXCEPT ![t] = after_connect(task[t], r.m, r.out)]
    /\ UNCHANGED <<c_future, call>>

\* Handlers that forget the session when the link failed.
send_reply_forgets(m, r) ==
    IF r = "DisconnectError" THEN [m EXCEPT !.protocol = None] ELSE m

\* Lines 86-100 after the round trip: the manager as the handlers leave it.
\* Neither the return nor an except clause assigns a field of self.
send_reply(m, r) == m

\* A handler that issues the request again when the link failed.
reply_retries(tk, r) ==
    IF r = "DisconnectError"
    THEN [tk EXCEPT !.nRequests = @ + 1]
    ELSE [tk EXCEPT !.pc = "done", !.res = reply_result(r)]

\* Lines 86-100 after the round trip: the call returns the apns-id or raises
\* the translated error; nothing is issued again.
reply(tk, r) == [tk EXCEPT !.pc = "done", !.res = reply_result(r)]

\* The round trip of a request ends.
Reply(t, r) ==
    /\ task[t].pc = "request"
    /\ SetMgr(send_reply(Mgr, r))
    /\ task' = [task EXCEPT ![t] = reply(@, r)]
    /\ UNCHANGED <<c_future, call>>

\* A session stops reporting itself connected.
SessionLost(g) ==
    /\ att[g].sess = "healthy"
    /\ att' = [att EXCEPT ![g].sess = "lost"]
    /\ UNCHANGED <<protocol, connection_coro, task, nAtt, c_future, call>>

Next ==
    \/ \E t \in Tasks : Connect(t)
    \/ \E t \in Tasks : SendMessage(t)
    \/ \E t \in Tasks : Disconnect(t)
    \/ \E g \in Attempts : \E o \in {"ok", "fault"} : Resolve(g, o)
    \/ \E t \in Tasks : Cancel(t)
    \/ \E t \in Tasks : Wakeup(t)
    \/ \E t \in Tasks : \E r \in Replies : Reply(t, r)
    \/ \E g \in Attempts : SessionLost(g)

Spec == Init /\ [][Next]_vars

\* The event loop runs every callback it has scheduled: a task whose future
\* is done and whose turn it is among the waiters is resumed.
LiveSpec == Spec /\ \A t \in Tasks : WF_vars(Wakeup(t))

(***************************************************************************)
(* The request and the translation of faults, lines 66-100                 *)
(***************************************************************************)

\* The longest payload text drawn.
MaxText == 2

\* NotificationPriority
Immediate == 10
Delayed == 5

priority_value(p) == IF p = "Immediate" THEN Immediate ELSE Delayed

\* A value that may be Python's None.
PyNone == [some |-> FALSE, v |-> ""]
Some(x) == [some |-> TRUE, v |-> x]

\* Truth of an optional string in an `if`: None and "" are false.
truthy(x) == x.some /\ x.v # ""

\* A dict is a function of its keys; dict.get(k) is None for a missing key.
EmptyDict == [k \in {} |-> ""]
dict_get(d, k) == IF k \in DOMAIN d THEN Some(d[k]) ELSE PyNone

\* _get_apns_id
_get_apns_id(headers) == dict_get(headers, "apns-id")

\* str(n) of a natural number.
Digit(d) ==
    CASE d = 0 -> "0" [] d = 1 -> "1" [] d = 2 -> "2" [] d = 3 -> "3"
      [] d = 4 -> "4" [] d = 5 -> "5" [] d = 6 -> "6" [] d = 7 -> "7"
      [] d = 8 -> "8" [] d = 9 -> "9"

RECURSIVE str(_)
str(n) == IF n < 10 THEN Digit(n) ELSE str(n \div 10) \o Digit(n % 10)

\* The characters a payload text is drawn from, each named by a string: a
\* plain letter, the double quote, and the non-ASCII letter U+00E9.
Chars == {"h", "\"", "U+00E9"}

\* json.dumps of one character of a string (ensure_ascii is on): the quote
\* gets a backslash and a non-ASCII character becomes its \uXXXX escape.
json_char(c) ==
    CASE c = "\"" -> "\\\""
      [] c = "U+00E9" -> "\\u00e9"
      [] OTHER -> c

RECURSIVE json_string(_)
json_string(cs) ==
    IF cs = <<>> THEN "" ELSE json_char(Head(cs)) \o json_string(Tail(cs))

\* A payload argument: a Payload object or a bare str, with its alert text.
Payloads ==
    {[is_payload |-> b, text |-> cs] :
        b \in BOOLEAN, cs \in UNION {[1..n -> Chars] : n \in 0..MaxText}}

\* Payload(payload), lines 67-68.
Payload(payload) == [is_payload |-> TRUE, text |-> payload.text]

\* json.dumps(payload.as_dict()).encode(): the bytes of the JSON text, which
\* is ASCII, so one byte per character of the text.
json_dumps(payload) ==
    "{\"aps\": {\"alert\": \"" \o json_string(payload.text) \o "\"}}"

\* _prepare_request with content-length taken from the text of the payload.
prepare_request_text_length(payload, token) ==
    LET p == IF payload.is_payload THEN payload ELSE Payload(payload)
        data == json_dumps(p)
    IN  [headers |-> << <<":method", "POST">>,
                        <<":scheme", "https">>,
                        <<":path", "/3/device/" \o token>>,
                        <<"content-length", str(Len(payload.text))>> >>,
         data |-> data]

\* _prepare_request, lines 66-76.
_prepare_request(payload, token) ==
    LET p == IF payload.is_payload THEN payload ELSE Payload(payload)
        data == json_dumps(p)
    IN  [headers |-> << <<":method", "POST">>,
                        <<":scheme", "https">>,
                        <<":path", "/3/device/" \o token>>,
                        <<"content-length", str(Len(data))>> >>,
         data |-> data]

\* Lines 82-85: the request send_message() hands to send_request.
request(payload, token, prioriy, topic) ==
    LET r == _prepare_request(payload, token)
        h1 == Append(r.headers, <<"apns-priority", str(priority_value(prioriy))>>)
        h2 == IF truthy(topic) THEN Append(h1, <<"apns-topic", topic.v>>) ELSE h1
    IN  [headers |-> h2, data |-> r.data]

\* What send_request comes back with: a response, or a fault.  Each carries
\* response headers and the parsed body json_data() returns (None when the
\* fault has no body).  TimeoutError and CancelledError stand for the faults
\* that are neither HTTP2Error nor DisconnectError.
ReplyKinds == {"response", "HTTP2Error", "DisconnectError", "TimeoutError",
               "CancelledError"}

HeaderDicts == {":status" :> "400", (":status" :> "400") @@ ("apns-id" :> "abc123")}

NoBody == [some |-> FALSE, d |-> EmptyDict]

JsonBodies ==
    {NoBody} \cup {[some |-> TRUE, d |-> d] :
                     d \in {EmptyDict, "reason" :> "BadDeviceToken",
                            "reason" :> "InternalServerError"}}

TransportReplies == [kind : ReplyKinds, headers : HeaderDicts, json : JsonBodies]

\* Lines 90-93 and 96-99: the reason of a fault.
reason_of(exc) ==
    LET error_data == exc.json IN
    IF error_data.some THEN dict_get(error_data.d, "reason") ELSE PyNone

\* The exceptions of errors.py, by their constructor arguments.
APNsError(reason, apns_id) == [type |-> "APNsError", args |-> <<reason, apns_id>>]
APNsDisconnectError(reason) == [type |-> "APNsDisconnectError", args |-> <<reason>>]

\* Handlers that look for the apns-id only when the fault has a body.
send_result_id_with_body(r) ==
    CASE r.kind = "response" -> [kind |-> "return", value |-> _get_apns_id(r.headers)]
      [] r.kind = "HTTP2Error" ->
            [kind |-> "raise",
             exc |-> APNsError(reason_of(r),
                               IF r.json.some THEN _get_apns_id(r.headers) ELSE PyNone)]
      [] r.kind = "DisconnectError" ->
            [kind |-> "raise", exc |-> APNsDisconnectError(reason_of(r))]
      [] OTHER -> [kind |-> "raise", exc |-> r]

\* Handlers whose first clause also catches the disconnection fault.
send_result_one_clause(r) ==
    CASE r.kind = "response" -> [kind |-> "return", value |-> _get_apns_id(r.headers)]
      [] r.kind \in {"HTTP2Error", "DisconnectError"} ->
            [kind |-> "raise", exc |-> APNsError(reason_of(r), _get_apns_id(r.headers))]
      [] OTHER -> [kind |-> "raise", exc |-> r]

\* Handlers whose last clause catches every fault.
send_result_catch_all(r) ==
    CASE r.kind = "response" -> [kind |-> "return", value |-> _get_apns_id(r.headers)]
      [] r.kind = "HTTP2Error" ->
            [kind |-> "raise", exc |-> APNsError(reason_of(r), _get_apns_id(r.headers))]
      [] OTHER -> [kind |-> "raise", exc |-> APNsDisconnectError(reason_of(r))]

\* Lines 86-100: what send_message() returns or raises for a reply.
send_result(r) ==
    CASE r.kind = "response" -> [kind |-> "return", value |-> _get_apns_id(r.headers)]
      [] r.kind = "HTTP2Error" ->
            [kind |-> "raise", exc |-> APNsError(reason_of(r), _get_apns_id(r.headers))]
      [] r.kind = "DisconnectError" ->
            [kind |-> "raise", exc |-> APNsDisconnectError(reason_of(r))]
      [] OTHER -> [kind |-> "raise", exc |-> r]

\* The reply as the callers' records name it.
reply_name(r) ==
    IF r.kind \in {"response", "HTTP2Error", "DisconnectError"} THEN r.kind ELSE "other"

Tokens == {"deviceA", "b"}
Priorities == {"Immediate", "Delayed"}
Topics == {PyNone, Some(""), Some("com.example.app")}

\* A send_message() call that has not run yet.
Calls ==
    {[stage |-> "called", payload |-> p, token |-> k, prioriy |-> q, topic |-> c] :
        p \in Payloads, k \in Tokens, q \in Priorities, c \in Topics}

\* The manager as the module's connect() returns it (lines 15-19): task 1 has
\* called connect() on a fresh manager and the handshake has succeeded.
SendInit ==
    /\ protocol = 1
    /\ connection_coro = None
    /\ att = [g \in Attempts |->
                IF g = 1 THEN [gen |-> "finished", fut |-> "ok", sess |-> "healthy"]
                ELSE NoAttempt]
    /\ task = [t \in Tasks |->
                IF t = 1
                THEN [IdleTask EXCEPT !.op = "connect", !.pc = "done", !.res = "ok",
                                      !.via = "start", !.g = 1, !.conn = "ok",
                                      !.nHandshakes = 1, !.nConnects = 1]
                ELSE IdleTask]
    /\ nAtt = 1
    /\ c_future \in BOOLEAN
    /\ call \in Calls

\* Task 2 makes the call on the connected manager: lines 80-87 up to the
\* suspension on send_request.
IssueRequest ==
    /\ call.stage = "called"
    /\ Callable(2)
    /\ connected
    /\ task' = [task EXCEPT ![2] = send_request([IdleTask EXCEPT !.op = "send_message"], Mgr)]
    /\ call' = [call EXCEPT !.stage = "request"] @@
               [request |-> request(call.payload, call.token, call.prioriy, call.topic)]
    /\ UNCHANGED <<protocol, connection_coro, att, nAtt, c_future>>

\* The round trip ends with reply r: lines 88-100.
Respond(r) ==
    /\ call.stage = "request"
    /\ task[2].pc = "request"
    /\ SetMgr(send_reply(Mgr, reply_name(r)))
    /\ task' = [task EXCEPT ![2] = reply(@, reply_name(r))]
    /\ call' = [call EXCEPT !.stage = "done"] @@ [reply |-> r, outcome |-> send_result(r)]
    /\ UNCHANGED c_future

SendNext ==
    \/ IssueRequest
    \/ \E r \in TransportReplies : Respond(r)

SendSpec == SendInit /\ [][SendNext]_vars

(***************************************************************************)
(* Properties                                                              *)
(***************************************************************************)

\* The step in which task t makes its call.
CallStep(t) == task[t].pc = "idle" /\ task'[t].pc # "idle"

DisconnectStep(t) == CallStep(t) /\ task'[t].op = "disconnect"

\* The handshake of attempt g is in flight: H2ClientProtocol.connect has been
\* called and has not ended, or its future is not resolved yet.
InFlight(g) == att[g].gen = "suspended" \/ att[g].fut = "pending"

\* The caller that started an attempt, and its connect() has ended.
StarterEnded(t) == task[t].via = "start" /\ ~Waiting(t)

\* C1: single-flight connect.  In every state at most one handshake is in
\* flight; a handshake is started only when no handle is pending and none is
\* in flight, so the handshakes ever started exceed the attempts whose starter
\* has ended by at most one; and a caller of connect() (direct or through
\* send_message()) that is not connected and finds a pending handle takes the
\* join branch on that handle and starts no handshake.
C1_SingleFlight ==
    /\ [](Cardinality({g \in Attempts : InFlight(g)}) <= 1)
    /\ [](nAtt <= 1 + Cardinality({t \in Tasks : StarterEnded(t)}))
    /\ [][nAtt' # nAtt =>
            /\ nAtt' = nAtt + 1
            /\ connection_coro = None
            /\ \A g \in Attempts : ~InFlight(g)]_vars
    /\ [][\A t \in Tasks :
            (/\ CallStep(t)
             /\ task'[t].op \in {"connect", "send_message"}
             /\ ~(protocol # None /\ att[protocol].sess = "healthy")
             /\ connection_coro # None)
            => /\ nAtt' = nAtt
               /\ connection_coro' = connection_coro
               /\ task'[t].via = "join"
               /\ task'[t].g = connection_coro
               /\ task'[t].nHandshakes = 0]_vars

\* Three calls took part in one attempt, one starting it and two joining it,
\* all have ended and one handshake was started.
C1_Witness ==
    \E s, j, k \in Tasks :
        /\ j # k
        /\ task[s].via = "start" /\ task[j].via = "join" /\ task[k].via = "join"
        /\ task[j].g = task[s].g /\ task[k].g = task[s].g
        /\ task[s].pc = "done" /\ task[j].pc = "done" /\ task[k].pc = "done"
        /\ nAtt = 1

\* C2: shared outcome of a joined connect.  Whenever the caller that started
\* an attempt and a caller that joined it have both ended their connect(),
\* they ended it the same way: both returned, or both raised the same error.
C2_SharedOutcome ==
    \A s, j \in Tasks :
        (/\ task[s].via = "start" /\ task[j].via = "join"
         /\ task[j].g = task[s].g
         /\ task[s].conn # "none" /\ task[j].conn # "none")
        => task[j].conn = task[s].conn

\* C3: the pending handle is set exactly while a handshake is in flight: a
\* suspended generator is the one the handle names, and a handle that is set
\* names a generator that has not ended (so that nobody can wait on a dead
\* attempt).
C3_HandleOnlyInFlight ==
    /\ \A g \in Attempts : att[g].gen = "suspended" => connection_coro = g
    /\ connection_coro # None => att[connection_coro].gen = "suspended"

\* C4: lazy connect on send.  A send_message() calls connect() at most once;
\* when it called connect() and issued its request, that connect() returned
\* and the handshake it started or joined had produced its session; when it
\* did not call connect() it started no handshake.
C4_LazyConnect ==
    \A t \in Tasks :
        task[t].op = "send_message" =>
            /\ task[t].nConnects <= 1
            /\ (task[t].via = "none" => task[t].nHandshakes = 0)
            /\ (task[t].nRequests > 0 /\ task[t].via # "none")
               => (task[t].conn = "ok" /\ att[task[t].g].sess # "none")

\* C5: idempotent connect.  A connect() called while a session is referenced
\* and reports itself healthy returns at once, starts no handshake and leaves
\* the session reference, the pending handle, every generator and every
\* session as they were.
C5_IdempotentConnect ==
    [][\A t \in Tasks :
         (/\ CallStep(t)
          /\ task'[t].op = "connect"
          /\ protocol # None /\ att[protocol].sess = "healthy")
         => /\ protocol' = protocol
            /\ connection_coro' = connection_coro
            /\ att' = att
            /\ nAtt' = nAtt
            /\ task'[t].pc = "done" /\ task'[t].res = "ok"
            /\ task'[t].nHandshakes = 0]_vars

\* A connect() that found the manager connected has returned, the session is
\* still the one referenced, and a handle of another caller is still pending.
C5_Witness ==
    \E t \in Tasks :
        /\ task[t].op = "connect" /\ task[t].via = "noop"
        /\ task[t].pc = "done" /\ task[t].res = "ok"
        /\ connected
        /\ connection_coro # None

\* C6: at most one live transport session.  The sessions a handshake has
\* created and session.disconnect() has not torn down are zero or one.
C6_AtMostOneLiveSession ==
    Cardinality({g \in Attempts : att[g].sess \in {"healthy", "lost"}}) <= 1

\* C7: disconnect() is unconditional.  Every call of disconnect(), whatever
\* the session reference is, returns, leaves the reference empty and has torn
\* down the session that was referenced.
C7_DisconnectUnconditional ==
    [][\A t \in Tasks :
         DisconnectStep(t)
         => /\ task'[t].res = "ok"
            /\ protocol' = None
            /\ (protocol # None => att'[protocol].sess = "closed")]_vars

\* A disconnect() ran while the handle named generator g.
DisconnectedBeside(g) ==
    g # None /\ \E d \in Tasks : task[d].op = "disconnect" /\ task[d].g = g

\* The step resumes a caller with the cancellation that was waiting for it.
CancelledStep ==
    \E u \in Tasks :
        Waiting(u) /\ task[u].must_cancel /\ task'[u].pc \notin {"handshake", "joined"}

\* C8: disconnect() does not affect an in-flight connect attempt.  A
\* disconnect() step leaves the pending handle, every generator and handshake
\* future and every other caller as they were; and for an attempt beside
\* which disconnect() ran, the step in which its generator is resumed with
\* the session of the succeeded handshake (not with a cancellation) stores
\* that session in the session reference, and a caller waiting on it
\* that is resumed once the handshake succeeded, and was not itself
\* cancelled, returns from connect().
C8_DisconnectLeavesAttempt ==
    [][/\ \A t \in Tasks :
            DisconnectStep(t)
            => /\ connection_coro' = connection_coro
               /\ nAtt' = nAtt
               /\ \A g \in Attempts :
                     att'[g].gen = att[g].gen /\ att'[g].fut = att[g].fut
               /\ \A u \in Tasks \ {t} : task'[u] = task[u]
       /\ \A g \in Attempts :
            (/\ DisconnectedBeside(g)
             /\ att[g].gen = "suspended" /\ att'[g].gen = "finished"
             /\ att[g].fut = "ok"
             /\ ~CancelledStep)
            => protocol' = g /\ att'[g].sess = "healthy"
       /\ \A u \in Tasks :
            (/\ Waiting(u) /\ task'[u].pc \notin {"handshake", "joined"}
             /\ ~task[u].must_cancel
             /\ DisconnectedBeside(task[u].g)
             /\ att[task[u].g].fut = "ok")
            => task'[u].conn = "ok"]_vars

\* disconnect() tore down an old session while a handshake was in flight;
\* the handshake succeeded, its starter returned, and the new session is the
\* one referenced.
C8_Witness ==
    \E d, s \in Tasks :
        /\ task[d].op = "disconnect" /\ task[d].res = "ok" /\ task[d].g # None
        /\ task[s].via = "start" /\ task[s].g = task[d].g
        /\ task[s].conn = "ok"
        /\ protocol = task[s].g
        /\ connected

\* C9: a failed send does not change connection state.  The step that ends a
\* send_message() after its round trip leaves the session reference and the
\* pending handle as they were, and the session reference goes from a session
\* to empty only in a disconnect() step.
C9_FailedSendKeepsState ==
    [][/\ \A t \in Tasks :
            (task[t].pc = "request" /\ task'[t].pc # "request")
            => /\ protocol' = protocol
               /\ connection_coro' = connection_coro
               /\ att' = att
       /\ (protocol # None /\ protocol' = None)
            => \E t \in Tasks : DisconnectStep(t)]_vars

\* Two sends have failed, one with a Rejection error and one with a
\* Disconnection error, and the session they used is still referenced.
C9_Witness ==
    \E t, u \in Tasks :
        /\ task[t].op = "send_message" /\ task[t].res = "APNsError"
        /\ task[u].op = "send_message" /\ task[u].res = "APNsDisconnectError"
        /\ protocol # None
        /\ task[t].sentOn = protocol /\ task[u].sentOn = protocol

\* C10: no retry and no automatic reconnection.  A call takes part in at most
\* one connect attempt, starts at most one handshake and issues at most one
\* request (connect() none); a handshake is started only in the step in which
\* a caller makes its call; a call that has ended does nothing more; and the
\* step in which a call ends with an error starts no handshake and issues no
\* request.
C10_NoRetry ==
    /\ [](\A t \in Tasks :
            /\ task[t].nConnects <= 1
            /\ task[t].nHandshakes <= 1
            /\ task[t].nRequests <= 1
            /\ (task[t].op = "connect" => task[t].nRequests = 0))
    /\ [][/\ nAtt' # nAtt
               => \E t \in Tasks : CallStep(t) /\ task'[t].via = "start"
          /\ \A t \in Tasks : task[t].pc = "done" => task'[t] = task[t]
          /\ \A t \in Tasks :
               (task[t].pc # "done" /\ task'[t].pc = "done" /\ task'[t].res # "ok")
               => /\ nAtt' = nAtt
                  /\ \A u \in Tasks : task'[u].nRequests = task[u].nRequests]_vars

\* One send_message() ended with the failure of the connect it started and
\* another with a failed request after a connect of its own.
C10_Witness ==
    \E t, u \in Tasks :
        /\ task[t].op = "send_message" /\ task[t].via = "start"
        /\ task[t].pc = "done" /\ task[t].res = "fault" /\ task[t].nRequests = 0
        /\ task[u].op = "send_message" /\ task[u].via = "start"
        /\ task[u].pc = "done" /\ task[u].res = "APNsDisconnectError"
        /\ task[u].nRequests = 1

\* C15: a send never uses a missing session.  No send_message() ends with
\* the AttributeError of line 87 (self.protocol.send_request with
\* self.protocol None): whenever its connect() has returned, the session
\* reference is set at the moment the request is issued.
C15_SendHasSession ==
    \A t \in Tasks :
        task[t].op = "send_message" => task[t].res # "AttributeError"

\* C16: every connect caller eventually completes.  A caller suspended in
\* connect(), as the starter of the attempt or as a joiner, whose handshake
\* future is done, eventually leaves connect() (it returns, raises, or goes
\* on to its request).
C16_WaitersComplete ==
    \A t \in Tasks :
        (Waiting(t) /\ att[task[t].g].fut \in FutDone) ~> ~Waiting(t)

\* A joiner that was suspended on the handshake has ended its connect() after
\* the starter had cleared the handle, and so has the starter.
C16_Witness ==
    \E s, j \in Tasks :
        /\ c_future
        /\ task[s].via = "start" /\ task[j].via = "join" /\ task[j].g = task[s].g
        /\ task[s].conn = "fault" /\ task[j].conn = "fault"
        /\ task[s].pc = "done" /\ task[j].pc = "done"
        /\ connection_coro = None

\* The step in which task t ends its connect() with a failure.
ConnectFailsStep(t) ==
    /\ task[t].conn = "none"
    /\ task'[t].conn \notin {"none", "ok"}

\* C17: a send whose connect fails issues no request.  The step in which the
\* connect() of a send_message() fails ends the call with that same failure,
\* issues no request, and leaves the session reference empty and the pending
\* handle cleared.
C17_FailedConnectNoRequest ==
    [][\A t \in Tasks :
         (ConnectFailsStep(t) /\ task'[t].op = "send_message")
         => /\ task'[t].pc = "done"
            /\ task'[t].res = task'[t].conn
            /\ task'[t].nRequests = 0
            /\ protocol' = None
            /\ connection_coro' = None]_vars

\* C18: disconnect() without a session.  A disconnect() step taken while the
\* session reference is empty ends with an error, tears down no session and
\* leaves the session reference, the pending handle, every generator and
\* every other caller as they were.
C18_DisconnectWithoutSession ==
    [][\A t \in Tasks :
         (DisconnectStep(t) /\ protocol = None)
         => /\ task'[t].pc = "done"
            /\ task'[t].res = "AttributeError"
            /\ protocol' = None
            /\ connection_coro' = connection_coro
            /\ att' = att
            /\ nAtt' = nAtt
            /\ \A u \in Tasks \ {t} : task'[u] = task[u]]_vars

\* disconnect() has raised beside a first connect still in flight: the
\* handshake is pending, its handle is set, and the reference is empty.
C18_Witness ==
    \E s, d \in Tasks :
        /\ task[s].via = "start" /\ task[s].pc = "handshake"
        /\ att[task[s].g].fut = "pending"
        /\ task[d].op = "disconnect" /\ task[d].res = "AttributeError"
        /\ task[d].g = task[s].g /\ task[d].g # None
        /\ connection_coro = task[s].g
        /\ protocol = None

\* The followed send_message() has ended on reply kind k.
EndedOn(k) == call.stage = "done" /\ call.reply.kind = k

\* C11: rejection mapping.  A send_message() whose request fails with
\* HTTP2Error raises APNsError(reason, identifier): the reason is the `reason`
\* field of the fault's parsed body, absent when there is no body or no such
\* field; the identifier is the `apns-id` entry of the fault's headers, absent
\* when the header is missing, whether or not there is a body.
C11_RejectionMapping ==
    EndedOn("HTTP2Error") =>
        LET f == call.reply
            e == call.outcome
        IN  /\ e.kind = "raise"
            /\ e.exc.type = "APNsError"
            /\ Len(e.exc.args) = 2
            /\ e.exc.args[1] = IF f.json.some /\ "reason" \in DOMAIN f.json.d
                               THEN Some(f.json.d["reason"]) ELSE PyNone
            /\ e.exc.args[2] = IF "apns-id" \in DOMAIN f.headers
                               THEN Some(f.headers["apns-id"]) ELSE PyNone

\* A rejection without a body and with the apns-id header has been translated:
\* the reason is absent and the identifier is the header's.
C11_Witness ==
    /\ EndedOn("HTTP2Error")
    /\ ~call.reply.json.some
    /\ "apns-id" \in DOMAIN call.reply.headers
    /\ call.outcome.exc = [type |-> "APNsError", args |-> <<PyNone, Some("abc123")>>]
    /\ task[2].res = "APNsError"

\* C12: disconnection mapping.  A send_message() whose request fails with
\* DisconnectError raises APNsDisconnectError(reason), not APNsError: the
\* reason is the `reason` field of the fault's parsed body, absent when there
\* is no body or no such field, and the error is given no identifier.
C12_DisconnectionMapping ==
    EndedOn("DisconnectError") =>
        LET f == call.reply
            e == call.outcome
        IN  /\ e.kind = "raise"
            /\ e.exc.type = "APNsDisconnectError"
            /\ e.exc.type # "APNsError"
            /\ e.exc.args = << IF f.json.some /\ "reason" \in DOMAIN f.json.d
                               THEN Some(f.json.d["reason"]) ELSE PyNone >>

\* A disconnection fault with a reason in its body, and with an apns-id among
\* its headers, has been translated: the error carries the reason alone.
C12_Witness ==
    /\ EndedOn("DisconnectError")
    /\ call.reply.json = [some |-> TRUE, d |-> "reason" :> "InternalServerError"]
    /\ "apns-id" \in DOMAIN call.reply.headers
    /\ call.outcome.exc = [type |-> "APNsDisconnectError",
                           args |-> <<Some("InternalServerError")>>]
    /\ task[2].res = "APNsDisconnectError"

\* C13: unclassified faults propagate unchanged.  A send_message() whose
\* request fails with a fault that is neither HTTP2Error nor DisconnectError
\* raises that very fault, and neither APNsError nor APNsDisconnectError.
C13_UnclassifiedPropagate ==
    (call.stage = "done"
        /\ call.reply.kind \notin {"response", "HTTP2Error", "DisconnectError"})
    => /\ call.outcome = [kind |-> "raise", exc |-> call.reply]
       /\ task[2].res \notin {"APNsError", "APNsDisconnectError", "ok"}

\* A TimeoutError that carries a body with a reason and an apns-id header has
\* reached the caller as it was.
C13_Witness ==
    /\ EndedOn("TimeoutError")
    /\ call.reply.json = [some |-> TRUE, d |-> "reason" :> "BadDeviceToken"]
    /\ "apns-id" \in DOMAIN call.reply.headers
    /\ call.outcome.kind = "raise"
    /\ call.outcome.exc.kind = "TimeoutError"
    /\ call.outcome.exc.json = call.reply.json

\* The request of the followed call, once issued, has the five headers of
\* lines 70-75 and 83 in their order, a content-length that is the decimal
\* byte length of the body, the encoded payload as its body, and the topic
\* header as its sixth and last header exactly when with_topic.
RequestShape(with_topic) ==
    call.stage \in {"request", "done"} =>
        LET h == call.request.headers
            data == call.request.data
        IN  /\ Len(h) >= 5
            /\ h[1] = <<":method", "POST">>
            /\ h[2] = <<":scheme", "https">>
            /\ h[3] = <<":path", "/3/device/" \o call.token>>
            /\ h[4] = <<"content-length", str(Len(data))>>
            /\ h[5] = <<"apns-priority",
                        IF call.prioriy = "Immediate" THEN "10" ELSE "5">>
            /\ IF with_topic
               THEN Len(h) = 6 /\ h[6] = <<"apns-topic", call.topic.v>>
               ELSE Len(h) = 5
            /\ data = json_dumps([is_payload |-> TRUE, text |-> call.payload.text])

\* C14: request shape.  The request handed to the transport has the headers
\* :method, :scheme, :path, content-length and apns-priority in this order,
\* followed by apns-topic exactly when a topic was supplied (topic is not
\* None), and the encoded payload as its body.
C14_RequestShape == RequestShape(call.stage # "none" /\ call.topic.some)

\* C14 as the code has it: apns-topic follows exactly when a topic was
\* supplied and is not the empty string.
C14_RequestShapeNonEmptyTopic ==
    RequestShape(call.stage # "none" /\ call.topic.some /\ call.topic.v # "")

\* A bare str payload h" has been sent to deviceA with an empty topic: the
\* body escapes the quote, content-length counts the escaped bytes, and no
\* topic header follows the priority.
C14_Witness ==
    /\ call.stage = "request"
    /\ call.payload = [is_payload |-> FALSE, text |-> <<"h", "\"">>]
    /\ call.token = "deviceA"
    /\ call.prioriy = "Immediate"
    /\ call.topic = Some("")
    /\ call.request.data = "{\"aps\": {\"alert\": \"h\\\"\"}}"
    /\ call.request.headers = << <<":method", "POST">>, <<":scheme", "https">>,
                                 <<":path", "/3/device/deviceA">>,
                                 <<"content-length", "25">>,
                                 <<"apns-priority", "10">> >>

====
